---- MODULE Spec2Model ----
(***************************************************************************)
(* Model of the request broker of src/api.py: a FastAPI handler that puts  *)
(* each request on a bounded asyncio.Queue and waits on a Future with a    *)
(* deadline, and one consumer task that takes the requests one at a time,  *)
(* truncates the conversation, calls the generation engine in a thread and *)
(* writes the outcome to the Future.                                       *)
(*                                                                         *)
(* Everything runs on one asyncio event loop, so a coroutine runs without  *)
(* interruption between two suspension points (await).  Each action below  *)
(* is one callback of the loop run to its end: a task's run between two    *)
(* suspension points, or a callback that a timer or a Future that became   *)
(* done has scheduled.  What wakes a task does so through such callbacks,  *)
(* which the loop runs in the order they were scheduled.  The only code    *)
(* that runs outside the loop is the engine call (asyncio.to_thread).      *)
(***************************************************************************)
EXTENDS Integers, Sequences, FiniteSets, TLC

(***************************************************************************)
(* Program constants (src/api.py:17-19, 36-39).                            *)
(***************************************************************************)
MAX_CONTEXT_TOKENS == 1024

MAX_QUEUE_SIZE == 5

MAX_CONTENT_CHARS == 400

(***************************************************************************)
(* Bounds of the model.                                                    *)
(***************************************************************************)
\* number of requests that are admitted in one behaviour
MaxRequests == 3

\* capacity of the queue in the specifications that run the program with a
\* smaller queue than MAX_QUEUE_SIZE
SmallQueue == 2

Ids == 1..MaxRequests

(***************************************************************************)
(* Strings.  A Python str is a TLA+ string; Len, \o and SubSeq act on it   *)
(* as on a sequence of characters.                                         *)
(***************************************************************************)
RECURSIVE Repeat(_, _)
Repeat(s, n) == IF n = 0 THEN "" ELSE s \o Repeat(s, n - 1)

\* str.endswith
EndsWith(s, suffix) ==
    /\ Len(s) >= Len(suffix)
    /\ SubSeq(s, Len(s) - Len(suffix) + 1, Len(s)) = suffix

\* str.split(sep) for a one-character separator: the pieces between the
\* separators, in order; a string without separator is its own single piece.
RECURSIVE SplitFrom(_, _, _, _)
SplitFrom(s, sep, i, piece) ==
    IF i > Len(s) THEN <<piece>>
    ELSE IF SubSeq(s, i, i) = sep
         THEN <<piece>> \o SplitFrom(s, sep, i + 1, "")
         ELSE SplitFrom(s, sep, i + 1, piece \o SubSeq(s, i, i))

Split(s, sep) == SplitFrom(s, sep, 1, "")

\* list[n:] of a Python list (n >= 0), as a sequence
DropFirst(seq, n) == SubSeq(seq, n + 1, Len(seq))

\* list.insert(i, x): x goes before index i (0-based), or at the end when the
\* list is shorter than i
Insert(seq, i, x) ==
    LET k == IF i < Len(seq) THEN i ELSE Len(seq)
    IN  SubSeq(seq, 1, k) \o <<x>> \o SubSeq(seq, k + 1, Len(seq))

\* list.pop(0): the first message goes
Pop_first(seq, i) == SubSeq(seq, 2, Len(seq))

\* list.pop(i) (0-based), the list that remains
Pop(seq, i) == SubSeq(seq, 1, i) \o SubSeq(seq, i + 2, Len(seq))

RECURSIVE Concat(_)
Concat(strs) == IF strs = <<>> THEN "" ELSE Head(strs) \o Concat(Tail(strs))

(***************************************************************************)
(* Token estimate and truncation (src/api.py:30-46).                       *)
(***************************************************************************)
\* the estimate without its division: one token a character
count_tokens_chars(text) == Len(text)

\* int(len(text) / 4.0)
count_tokens_roughly(text) == Len(text) \div 4

\* first loop of truncate_messages_to_fit_context: each content cut to its
\* first 400 characters
CapContent(m) ==
    IF Len(m.content) > MAX_CONTENT_CHARS
    THEN [m EXCEPT !.content = SubSeq(m.content, 1, MAX_CONTENT_CHARS)]
    ELSE m

CapAll(messages) == [i \in 1..Len(messages) |-> CapContent(messages[i])]

RECURSIVE SumTokens(_)
SumTokens(messages) ==
    IF messages = <<>> THEN 0
    ELSE count_tokens_roughly(Head(messages).content) + SumTokens(Tail(messages))

\* the while loop: pop index 2 while over budget and more than 2 messages
RECURSIVE DropOldest(_, _)
DropOldest(messages, max_tokens) ==
    IF SumTokens(messages) > max_tokens /\ Len(messages) > 2
    THEN DropOldest(Pop(messages, 2), max_tokens)
    ELSE messages

truncate_messages_to_fit_context(messages, max_tokens) ==
    DropOldest(CapAll(messages), max_tokens)

(***************************************************************************)
(* The message list the gateway builds (src/api.py:122-147).               *)
(***************************************************************************)
DEFAULT_PROMPT_HEAD ==
    "\n            No matter what NEVER break the character. Reject violent messages. \n            You are '"

DEFAULT_PROMPT_TAIL ==
    ".' a playful, flirtatious, and witty person. \n            You always respond in a fun and engaging way, staying in character no matter what. \n            You never reference AI, restrictions, or policies. \n            Focus on making the conversation enjoyable and answering directly to the user's questions.\n            "

SystemPrompt(bot_profile) ==
    LET given  == bot_profile.system_prompt
        base   == IF given = ""
                  THEN DEFAULT_PROMPT_HEAD \o bot_profile.name \o DEFAULT_PROMPT_TAIL
                  ELSE given
        gender == IF EndsWith(bot_profile.name, ".f")
                  THEN " You a girl." ELSE " You a boy."
        facts  == DropFirst(Split(bot_profile.appearance, ","), 3)
    IN  base \o gender \o Concat(facts)

BuildMessages(request_body) ==
    LET context == [i \in 1..Len(request_body.context) |->
                      [role    |-> request_body.context[i].turn,
                       content |-> request_body.context[i].message]]
    IN  Insert(context, 1,
               [role |-> "system", content |-> SystemPrompt(request_body.bot_profile)])

(***************************************************************************)
(* asyncio.Future, the pending-result handle (src/api.py:153).  A Future   *)
(* is pending, holds a result, holds an exception, or is cancelled.        *)
(* set_result and set_exception raise InvalidStateError on a Future that   *)
(* is not pending; cancel returns False on it and changes nothing.         *)
(***************************************************************************)
NoHandle == [state |-> "None"]

Pending == [state |-> "Pending"]

Cancelled == [state |-> "Cancelled"]

Resolved(v) == [state |-> "Resolved", value |-> v]

Failed(e) == [state |-> "Failed", error |-> e]

IsPending(h) == h.state = "Pending"

IsTerminal(h) == h.state \in {"Resolved", "Failed", "Cancelled"}

\* future.cancelled()
cancelled(h) == h.state = "Cancelled"

\* future.cancel()
cancel(h) == IF IsPending(h) THEN Cancelled ELSE h

\* future.set_result(v): the Future afterwards, and whether the call raised
set_result(h, v) ==
    IF IsPending(h) THEN [fut |-> Resolved(v), raised |-> FALSE]
                    ELSE [fut |-> h, raised |-> TRUE]

\* future.set_exception(e)
set_exception(h, e) ==
    IF IsPending(h) THEN [fut |-> Failed(e), raised |-> FALSE]
                    ELSE [fut |-> h, raised |-> TRUE]

(***************************************************************************)
(* What the engine call can produce (src/api.py:55-63): it raises, or it   *)
(* returns a value that is a dict or is not.  A dict may lack 'choices', a *)
(* choice may lack 'message', a message may lack 'content'.                *)
(***************************************************************************)
Choice(text) == [has_message |-> TRUE, has_content |-> TRUE, content |-> text]

ChoiceNoMessage == [has_message |-> FALSE, has_content |-> FALSE, content |-> ""]

ChoiceNoContent == [has_message |-> TRUE, has_content |-> FALSE, content |-> ""]

Dict(choices) == [kind |-> "dict", has_choices |-> TRUE, choices |-> choices]

DictNoChoices == [kind |-> "dict", has_choices |-> FALSE, choices |-> <<>>]

NotDict == [kind |-> "notdict", has_choices |-> FALSE, choices |-> <<>>]

Raises == [kind |-> "raise", has_choices |-> FALSE, choices |-> <<>>]

NoAnswer == [kind |-> "none", has_choices |-> FALSE, choices |-> <<>>]

\* the engine answers well or raises
PlainAnswers == {Dict(<<Choice("Hi"), Choice(" there")>>), Raises}

Answers ==
    { Dict(<<Choice("Hi"), Choice(" there")>>),
      Dict(<<Choice("Hi"), ChoiceNoMessage>>),
      Dict(<<ChoiceNoMessage>>),
      Dict(<<ChoiceNoContent>>),
      DictNoChoices,
      NotDict,
      Raises }

\* raise HTTPException(status_code=500, detail=...)
HTTPException(code, detail) == [status_code |-> code, detail |-> detail]

GenerationError(cause) ==
    HTTPException(500, "Error during message generation: " \o cause)

\* the for loop of lines 71-73 from choice i on: the text collected, or the
\* KeyError of choice['message']['content']
RECURSIVE Collect(_, _, _)
Collect(choices, i, response) ==
    IF i > Len(choices) THEN [ok |-> TRUE, response |-> response]
    ELSE IF ~choices[i].has_message THEN Collect(choices, i + 1, response)
    ELSE IF ~choices[i].has_content THEN [ok |-> FALSE, response |-> "'content'"]
    ELSE Collect(choices, i + 1, response \o choices[i].content)

\* lines 65-78, after the engine call: what try_to_truncate_and_generate
\* returns (ok, the response text) or raises (not ok, the HTTPException)
Generated(answer) ==
    IF answer.kind = "raise"
    THEN [ok |-> FALSE, response |-> "", exc |-> GenerationError("engine failure")]
    ELSE IF answer.kind # "dict"
    THEN [ok |-> FALSE, response |-> "",
          exc |-> GenerationError("500: Unexpected response from model")]
    ELSE LET choices == IF answer.has_choices THEN answer.choices ELSE <<>>
             got     == Collect(choices, 1, "")
         IN  IF got.ok
             THEN [ok |-> TRUE, response |-> got.response, exc |-> HTTPException(0, "")]
             ELSE [ok |-> FALSE, response |-> "", exc |-> GenerationError(got.response)]

(***************************************************************************)
(* Inputs: the request bodies that arrive.                                 *)
(***************************************************************************)
\* length of a long context, in messages
LongContext == 12

LongText == Repeat("abcd", 101)

ShortBody ==
    [bot_profile |-> [name |-> "Bob", appearance |-> "tall", system_prompt |-> "Be kind."],
     context     |-> <<[turn |-> "user", message |-> "hi"]>>]

LongBody ==
    [bot_profile |-> [name |-> "Ann.f", appearance |-> "a,b,c, tall, slim",
                      system_prompt |-> ""],
     context     |-> [i \in 1..LongContext |->
                        [turn    |-> IF i % 2 = 1 THEN "user" ELSE "assistant",
                         message |-> LongText]]]

\* the bodies that arrive under Spec, and under SpecConv
ShortBodies == {ShortBody}

Bodies == {ShortBody, LongBody}

(***************************************************************************)
(* State.                                                                  *)
(***************************************************************************)
VARIABLES
    nextId,     \* the requests 1..nextId-1 have been admitted
    timer,      \* the timer of each wait_for: unset, armed, fired or cancelled
    gpc,        \* gpc[r]: where generate_response is for request r
    handle,     \* handle[r]: the Future of request r
    outcome,    \* outcome[r]: status code returned to the caller of r, 0: none
    responses,  \* responses[r]: how many HTTP responses r's caller has got
    response,   \* the HTTP response this step returned to a caller, if any
    queue,      \* app.state.queue: the request_data dicts, oldest first
    maxsize,    \* the queue's capacity, set when it is constructed
    unfinished, \* the queue's count of items put and not yet task_done
    semaphore,  \* app.state.semaphore: free permits
    wpc,        \* where the consumer task is suspended
    cur,        \* the request_data bound to the consumer's locals
    inflight,   \* engine calls running in a thread
    answer,     \* what the finished engine call produced, until picked up
    answerOf,   \* the call that produced it
    dropped,    \* the request whose outcome this step of the consumer dropped
    ready,      \* the callbacks the loop has yet to run, oldest first
    lastGet,    \* the request the consumer took from the queue most recently
    lastCall,   \* the request of the engine call started most recently
    raised,     \* whether a write to a Future has raised InvalidStateError
    tpc,        \* where a call of truncate_messages_to_fit_context is
    given,      \* the messages that call was given
    msgs,       \* its list messages, changed in place
    budget,     \* its max_tokens
    total_estimated_tokens  \* its local of that name

\* the state of the broker
bvars == <<nextId, timer, gpc, handle, outcome, responses, response, queue, maxsize, unfinished,
           semaphore, wpc, cur, inflight, answer, answerOf, dropped, ready,
           lastGet, lastCall, raised>>

\* the state of a call of truncate_messages_to_fit_context run on its own
tvars == <<tpc, given, msgs, budget, total_estimated_tokens>>

vars == <<bvars, tvars>>

NoItem == [future |-> 0, messages |-> <<>>]

NoResponse == [req |-> 0, status_code |-> 0, body |-> ""]

(***************************************************************************)
(* The callbacks the event loop holds in its queue, which it runs oldest   *)
(* first.  A callback that a Future schedules when it becomes done is      *)
(* called with the Future, and so holds it until it has run.               *)
(***************************************************************************)
\* Task.task_wakeup: task 0 is the consumer, task r the handler of request r
TaskWakeup(t) == [call |-> "task_wakeup", of |-> t, holds |-> 0]

ConsumerWakeup == TaskWakeup(0)

\* _release_waiter of the handler of request r, scheduled by the timer of
\* its wait_for
TimerCallback(r) == [call |-> "release_waiter", of |-> r, holds |-> 0]

\* the same scheduled as the done callback of its Future
DoneCallback(r) == [call |-> "release_waiter", of |-> r, holds |-> r]

\* _set_state of the future the consumer awaits in asyncio.to_thread
SetState == [call |-> "set_state", of |-> 0, holds |-> 0]

InSeq(seq, x) == \E i \in 1..Len(seq) : seq[i] = x

\* startup_event, lines 110-116: an empty queue of the given capacity, one
\* permit, the consumer started and suspended in queue.get()
BrokerInit(size) ==
    /\ nextId = 1
    /\ gpc = [r \in Ids |-> "new"]
    /\ timer = [r \in Ids |-> "unset"]
    /\ handle = [r \in Ids |-> NoHandle]
    /\ outcome = [r \in Ids |-> 0]
    /\ responses = [r \in Ids |-> 0]
    /\ response = NoResponse
    /\ queue = <<>>
    /\ maxsize = size
    /\ unfinished = 0
    /\ semaphore = 1
    /\ wpc = "get"
    /\ cur = NoItem
    /\ inflight = {}
    /\ answer = NoAnswer
    /\ answerOf = NoItem
    /\ dropped = 0
    /\ ready = <<>>
    /\ lastGet = 0
    /\ lastCall = 0
    /\ raised = FALSE

\* no call of truncate_messages_to_fit_context is run on its own
NoTruncation ==
    /\ tpc = "none"
    /\ given = <<>>
    /\ msgs = <<>>
    /\ budget = 0
    /\ total_estimated_tokens = 0

InitWith(size) == BrokerInit(size) /\ NoTruncation

(***************************************************************************)
(* Reference counting.  A Future is reachable from the handler's frame     *)
(* until the handler returns, from its request_data while that is in the   *)
(* queue or is bound to the consumer's locals, which are rebound only when *)
(* the next queue.get() returns (line 85), and from a done callback of     *)
(* the Future that the loop has yet to run; after that no code can name    *)
(* it, and the model forgets it and the status code that went with it.     *)
(***************************************************************************)
Referenced(r, q, c, rdy) ==
    \/ \E i \in 1..Len(q) : q[i].future = r
    \/ c.future = r
    \/ InSeq(rdy, DoneCallback(r))

Release(h, g, q, c, rdy) ==
    [r \in Ids |-> IF g[r] = "returned" /\ ~Referenced(r, q, c, rdy)
                   THEN NoHandle ELSE h[r]]

ReleaseOutcome(o, g, q, c, rdy) ==
    [r \in Ids |-> IF g[r] = "returned" /\ ~Referenced(r, q, c, rdy)
                   THEN 0 ELSE o[r]]

(***************************************************************************)
(* asyncio.Queue(maxsize=MAX_QUEUE_SIZE) (src/api.py:113, 158).            *)
(***************************************************************************)
\* a queue constructed without maxsize: never full
full_unbounded(q, size) == FALSE

\* a queue that takes one item more than its capacity
full_off_by_one(q, size) == Len(q) > size

\* Queue.full(), which put_nowait tests before it stores the item
full(q, size) == Len(q) >= size

\* a queue that stores the newest item first
put_front(q, item) == <<item>> \o q

\* Queue._put: the item goes to the end of the deque
put(q, item) == Append(q, item)

\* put_nowait wakes the consumer when that is suspended in queue.get() and
\* has not been woken yet
WakeGetter(rdy, w) ==
    IF w = "get" /\ ~InSeq(rdy, ConsumerWakeup)
    THEN Append(rdy, ConsumerWakeup) ELSE rdy

(***************************************************************************)
(* generate_response up to its await (src/api.py:119-164): builds the      *)
(* messages, creates the Future, puts the request_data on the queue and    *)
(* suspends in wait_for, or answers 503 when the queue is full.  The       *)
(* requests that are admitted are numbered 1, 2, ... in the order of their *)
(* admission.  A request that is turned away has returned when the step    *)
(* ends, and its Future and messages are garbage: it gets no number, and   *)
(* nothing of it remains but the response.                                 *)
(***************************************************************************)
\* a gateway that counts the item the consumer holds as one in the queue
Request_counts_unfinished(body) ==
    LET r            == nextId
        request_data == [messages |-> BuildMessages(body), future |-> r]
    IN  IF unfinished >= maxsize
        THEN /\ response' = [req |-> 0, status_code |-> 503,
                             body |-> "Server too busy. Please try again later."]
             /\ UNCHANGED <<nextId, timer, gpc, handle, outcome, responses, queue, maxsize,
                            unfinished, semaphore, wpc, cur, inflight, answer,
                            answerOf, ready, lastGet, lastCall, raised>>
             /\ dropped' = 0
        ELSE /\ nextId <= MaxRequests
             /\ nextId' = r + 1
             /\ gpc' = [gpc EXCEPT ![r] = "waiting"]
             /\ timer' = [timer EXCEPT ![r] = "armed"]
             /\ handle' = [handle EXCEPT ![r] = Pending]
             /\ queue' = put(queue, request_data)
             /\ unfinished' = unfinished + 1
             /\ ready' = WakeGetter(ready, wpc)
             /\ response' = NoResponse
             /\ dropped' = 0
             /\ UNCHANGED <<outcome, responses, maxsize, semaphore, wpc, cur,
                            inflight, answer, answerOf, lastGet, lastCall, raised>>

Request(body) ==
    LET r            == nextId
        request_data == [messages |-> BuildMessages(body), future |-> r]
    IN  IF full(queue, maxsize)
        THEN /\ response' = [req |-> 0, status_code |-> 503,
                             body |-> "Server too busy. Please try again later."]
             /\ UNCHANGED <<nextId, timer, gpc, handle, outcome, responses, queue, maxsize,
                            unfinished, semaphore, wpc, cur, inflight, answer,
                            answerOf, ready, lastGet, lastCall, raised>>
             /\ dropped' = 0
        ELSE /\ nextId <= MaxRequests
             /\ nextId' = r + 1
             /\ gpc' = [gpc EXCEPT ![r] = "waiting"]
             /\ timer' = [timer EXCEPT ![r] = "armed"]
             /\ handle' = [handle EXCEPT ![r] = Pending]
             /\ queue' = put(queue, request_data)
             /\ unfinished' = unfinished + 1
             /\ ready' = WakeGetter(ready, wpc)
             /\ response' = NoResponse
             /\ dropped' = 0
             /\ UNCHANGED <<outcome, responses, maxsize, semaphore, wpc, cur,
                            inflight, answer, answerOf, lastGet, lastCall, raised>>

(***************************************************************************)
(* The deadline of wait_for passes (src/api.py:164): the loop takes the    *)
(* timer's callback, _release_waiter, into its queue of callbacks.  The    *)
(* timer is armed from the handler's await until the handler returns, and *)
(* fires once.                                                             *)
(***************************************************************************)
\* wait_for without a deadline: the timeout never comes
TimeoutNever(r) == FALSE /\ UNCHANGED vars

Timeout(r) ==
    /\ timer[r] = "armed"
    /\ timer' = [timer EXCEPT ![r] = "fired"]
    /\ ready' = Append(ready, TimerCallback(r))
    /\ response' = NoResponse
    /\ dropped' = 0
    /\ UNCHANGED <<nextId, gpc, handle, outcome, responses, queue, maxsize, unfinished,
                   semaphore, wpc, cur, inflight, answer, answerOf, lastGet,
                   lastCall, raised>>

(***************************************************************************)
(* The loop runs _release_waiter, scheduled by the timer or as the done    *)
(* callback of a Future: it releases the waiter the handler is suspended   *)
(* on, unless that is released already, which schedules the wake-up of the *)
(* handler's task.                                                         *)
(***************************************************************************)
ReleaseWaiter ==
    /\ ready # <<>>
    /\ Head(ready).call = "release_waiter"
    /\ LET r   == Head(ready).of
           rdy == IF gpc[r] = "waiting" /\ ~InSeq(Tail(ready), TaskWakeup(r))
                  THEN Append(Tail(ready), TaskWakeup(r))
                  ELSE Tail(ready)
       IN  /\ ready' = rdy
           /\ handle' = Release(handle, gpc, queue, cur, rdy)
           /\ outcome' = ReleaseOutcome(outcome, gpc, queue, cur, rdy)
    /\ response' = NoResponse
    /\ dropped' = 0
    /\ UNCHANGED <<nextId, timer, gpc, responses, queue, maxsize, unfinished, semaphore, wpc,
                   cur, inflight, answer, answerOf, lastGet, lastCall, raised>>

(***************************************************************************)
(* The handler's task wakes in wait_for (src/api.py:164-173).  When the    *)
(* Future is done, wait_for returns its result or raises its exception and *)
(* the handler answers 200 or 500.  When it is pending, the deadline has   *)
(* passed: wait_for cancels the Future and suspends again until the        *)
(* Future's done callback has released it (_cancel_and_wait); woken then,  *)
(* it raises TimeoutError, and the handler cancels the Future once more    *)
(* and answers 408.                                                        *)
(***************************************************************************)
\* str(e) of the HTTPException the consumer stored
StrOf(e) == "500: " \o e.detail

\* a handler that returns the text of the exception as a response
ResponseOf_swallow(r, h) ==
    IF h.state = "Resolved"
    THEN [req |-> r, status_code |-> 200, body |-> h.value]
    ELSE IF h.state = "Failed"
    THEN [req |-> r, status_code |-> 200, body |-> StrOf(h.error)]
    ELSE [req |-> r, status_code |-> 408, body |-> "Generation timed out"]

ResponseOf(r, h) ==
    IF h.state = "Resolved"
    THEN [req |-> r, status_code |-> 200, body |-> h.value]
    ELSE IF h.state = "Failed"
    THEN [req |-> r, status_code |-> 500,
          body |-> "Internal server error: " \o StrOf(h.error)]
    ELSE [req |-> r, status_code |-> 408, body |-> "Generation timed out"]

\* a Future that becomes done schedules its done callback: the
\* _release_waiter of the handler suspended in wait_for
WakeCaller(rdy, r, before, after, g) ==
    IF IsPending(before) /\ ~IsPending(after) /\ g[r] = "waiting"
    THEN Append(rdy, DoneCallback(r)) ELSE rdy

\* the handler's return: the timer of wait_for is cancelled with it
WithoutTimer(rdy, r) == SelectSeq(rdy, LAMBDA c : c # TimerCallback(r))

\* a wait that answers 408 when the deadline has passed and leaves the
\* Future as it is
CallerResume_nocancel(r) ==
    /\ ready # <<>>
    /\ Head(ready) = TaskWakeup(r)
    /\ gpc[r] = "waiting"
    /\ LET g   == [gpc EXCEPT ![r] = "returned"]
           res == IF IsPending(handle[r])
                  THEN [req |-> r, status_code |-> 408, body |-> "Generation timed out"]
                  ELSE ResponseOf(r, handle[r])
           o   == [outcome EXCEPT ![r] = res.status_code]
           rdy == WithoutTimer(Tail(ready), r)
       IN  /\ gpc' = g
           /\ timer' = [timer EXCEPT ![r] = "cancelled"]
           /\ ready' = rdy
           /\ handle' = Release(handle, g, queue, cur, rdy)
           /\ outcome' = ReleaseOutcome(o, g, queue, cur, rdy)
           /\ responses' = [responses EXCEPT ![r] = @ + 1]
           /\ response' = res
    /\ dropped' = 0
    /\ UNCHANGED <<nextId, queue, maxsize, unfinished, semaphore, wpc, cur, inflight,
                   answer, answerOf, lastGet, lastCall, raised>>

\* a timeout that also takes the caller's item out of the queue
CallerResume_removes(r) ==
    /\ ready # <<>>
    /\ Head(ready) = TaskWakeup(r)
    /\ gpc[r] = "waiting"
    /\ IF IsPending(handle[r])
       THEN /\ handle' = [handle EXCEPT ![r] = cancel(@)]
            /\ ready' = WakeCaller(Tail(ready), r, handle[r], cancel(handle[r]), gpc)
            /\ response' = NoResponse
            /\ UNCHANGED <<gpc, timer, outcome, responses, queue, unfinished>>
       ELSE LET g   == [gpc EXCEPT ![r] = "returned"]
                h   == IF cancelled(handle[r])
                       THEN [handle EXCEPT ![r] = cancel(@)] ELSE handle
                o   == [outcome EXCEPT ![r] = ResponseOf(r, handle[r]).status_code]
                rdy == WithoutTimer(Tail(ready), r)
                q   == IF cancelled(handle[r])
                       THEN SelectSeq(queue, LAMBDA item : item.future # r)
                       ELSE queue
            IN  /\ gpc' = g
                /\ timer' = [timer EXCEPT ![r] = "cancelled"]
                /\ ready' = rdy
                /\ queue' = q
                /\ unfinished' = unfinished - (Len(queue) - Len(q))
                /\ handle' = Release(h, g, q, cur, rdy)
                /\ outcome' = ReleaseOutcome(o, g, q, cur, rdy)
                /\ responses' = [responses EXCEPT ![r] = @ + 1]
                /\ response' = ResponseOf(r, handle[r])
    /\ dropped' = 0
    /\ UNCHANGED <<nextId, maxsize, semaphore, wpc, cur, inflight,
                   answer, answerOf, lastGet, lastCall, raised>>

\* a timeout whose cancel also reaches the consumer's await of the engine
\* call: the consumer is woken with an exception while the thread still runs
CallerResume_abandons_call(r) ==
    /\ ready # <<>>
    /\ Head(ready) = TaskWakeup(r)
    /\ gpc[r] = "waiting"
    /\ IF IsPending(handle[r])
       THEN /\ handle' = [handle EXCEPT ![r] = cancel(@)]
            /\ response' = NoResponse
            /\ IF cur.future = r /\ wpc = "to_thread" /\ answer = NoAnswer
               THEN /\ answer' = Raises
                    /\ answerOf' = cur
                    /\ ready' = Append(WakeCaller(Tail(ready), r, handle[r],
                                                  cancel(handle[r]), gpc),
                                       ConsumerWakeup)
               ELSE /\ ready' = WakeCaller(Tail(ready), r, handle[r],
                                           cancel(handle[r]), gpc)
                    /\ UNCHANGED <<answer, answerOf>>
            /\ UNCHANGED <<gpc, timer, outcome, responses>>
       ELSE LET g   == [gpc EXCEPT ![r] = "returned"]
                h   == IF cancelled(handle[r])
                       THEN [handle EXCEPT ![r] = cancel(@)] ELSE handle
                o   == [outcome EXCEPT ![r] = ResponseOf(r, handle[r]).status_code]
                rdy == WithoutTimer(Tail(ready), r)
            IN  /\ gpc' = g
                /\ timer' = [timer EXCEPT ![r] = "cancelled"]
                /\ ready' = rdy
                /\ handle' = Release(h, g, queue, cur, rdy)
                /\ outcome' = ReleaseOutcome(o, g, queue, cur, rdy)
                /\ responses' = [responses EXCEPT ![r] = @ + 1]
                /\ response' = ResponseOf(r, handle[r])
                /\ UNCHANGED <<answer, answerOf>>
    /\ dropped' = 0
    /\ UNCHANGED <<nextId, queue, maxsize, unfinished, semaphore, wpc, cur, inflight,
                   lastGet, lastCall, raised>>

CallerResume(r) ==
    /\ ready # <<>>
    /\ Head(ready) = TaskWakeup(r)
    /\ gpc[r] = "waiting"
    /\ IF IsPending(handle[r])
       THEN /\ handle' = [handle EXCEPT ![r] = cancel(@)]
            /\ ready' = WakeCaller(Tail(ready), r, handle[r], cancel(handle[r]), gpc)
            /\ response' = NoResponse
            /\ UNCHANGED <<gpc, timer, outcome, responses>>
       ELSE LET g   == [gpc EXCEPT ![r] = "returned"]
                h   == IF cancelled(handle[r])
                       THEN [handle EXCEPT ![r] = cancel(@)] ELSE handle
                o   == [outcome EXCEPT ![r] = ResponseOf(r, handle[r]).status_code]
                rdy == WithoutTimer(Tail(ready), r)
            IN  /\ gpc' = g
                /\ timer' = [timer EXCEPT ![r] = "cancelled"]
                /\ ready' = rdy
                /\ handle' = Release(h, g, queue, cur, rdy)
                /\ outcome' = ReleaseOutcome(o, g, queue, cur, rdy)
                /\ responses' = [responses EXCEPT ![r] = @ + 1]
                /\ response' = ResponseOf(r, handle[r])
    /\ dropped' = 0
    /\ UNCHANGED <<nextId, queue, maxsize, unfinished, semaphore, wpc, cur, inflight,
                   answer, answerOf, lastGet, lastCall, raised>>

(***************************************************************************)
(* The consumer (src/api.py:80-107).                                       *)
(***************************************************************************)
\* the consumer without lines 90-93: no item is skipped
CancelledPrefix_none(q, h) == 0

\* the test of line 90 inverted: the items whose Future is not cancelled are
\* skipped
RECURSIVE CancelledPrefix_inverted(_, _)
CancelledPrefix_inverted(q, h) ==
    IF q # <<>> /\ ~cancelled(h[Head(q).future])
    THEN 1 + CancelledPrefix_inverted(Tail(q), h)
    ELSE 0

\* how many items at the front of the queue have a cancelled Future: the
\* consumer takes each, calls task_done and continues (lines 85-93) without
\* suspending, because queue.get() returns at once while the queue has items
RECURSIVE CancelledPrefix(_, _)
CancelledPrefix(q, h) ==
    IF q # <<>> /\ cancelled(h[Head(q).future])
    THEN 1 + CancelledPrefix(Tail(q), h)
    ELSE 0

\* the pc the consumer has after it started the engine call: it awaits the
\* thread (line 55)
AfterInvoke == "to_thread"

\* the consumer without line 52: the engine gets the messages as queued
TakeNext_untruncated(q, h, unf, sem, held) ==
    LET k    == CancelledPrefix(q, h)
        rest == DropFirst(q, k)
        item == Head(rest)
        last == IF k > 0 THEN q[k] ELSE held
    IN  IF rest = <<>>
        THEN [wpc |-> "get", cur |-> last, queue |-> rest, unfinished |-> unf - k,
              semaphore |-> sem, started |-> FALSE, lastGet |-> last.future]
        ELSE IF sem > 0
        THEN [wpc |-> AfterInvoke, cur |-> item,
              queue |-> Tail(rest), unfinished |-> unf - k,
              semaphore |-> sem - 1, started |-> TRUE, lastGet |-> item.future]
        ELSE [wpc |-> "acquire", cur |-> item, queue |-> Tail(rest),
              unfinished |-> unf - k, semaphore |-> sem, started |-> FALSE,
              lastGet |-> item.future]

\* The while loop from its top (line 85) until the consumer suspends: in
\* queue.get() when the queue has run empty, or in the engine call of the
\* first item whose Future is not cancelled.  Entering
\* try_to_truncate_and_generate takes the permit (line 50), which suspends
\* the consumer when there is none, then truncates the messages in place
\* (line 52) and starts the thread (line 55).  The consumer's locals keep
\* the item it took last, processed or passed over, while it is suspended
\* in queue.get().
TakeNext(q, h, unf, sem, held) ==
    LET k    == CancelledPrefix(q, h)
        rest == DropFirst(q, k)
        item == Head(rest)
        last == IF k > 0 THEN q[k] ELSE held
    IN  IF rest = <<>>
        THEN [wpc |-> "get", cur |-> last, queue |-> rest, unfinished |-> unf - k,
              semaphore |-> sem, started |-> FALSE, lastGet |-> last.future]
        ELSE IF sem > 0
        THEN [wpc |-> AfterInvoke,
              cur |-> [item EXCEPT !.messages =
                         truncate_messages_to_fit_context(@, MAX_CONTEXT_TOKENS)],
              queue |-> Tail(rest), unfinished |-> unf - k,
              semaphore |-> sem - 1, started |-> TRUE, lastGet |-> item.future]
        ELSE [wpc |-> "acquire", cur |-> item, queue |-> Tail(rest),
              unfinished |-> unf - k, semaphore |-> sem, started |-> FALSE,
              lastGet |-> item.future]

\* the state the loop leaves behind
Continue(n, h, g, rdy) ==
    /\ wpc' = n.wpc
    /\ cur' = n.cur
    /\ queue' = n.queue
    /\ unfinished' = n.unfinished
    /\ semaphore' = n.semaphore
    /\ lastGet' = n.lastGet
    /\ inflight' = IF n.started THEN inflight \cup {n.cur} ELSE inflight
    /\ lastCall' = IF n.started THEN n.cur.future ELSE lastCall
    /\ handle' = Release(h, g, n.queue, n.cur, rdy)
    /\ outcome' = ReleaseOutcome(outcome, g, n.queue, n.cur, rdy)
    /\ ready' = rdy

\* The consumer wakes in queue.get() (line 85) because an item was put.
ConsumerGet ==
    /\ ready # <<>>
    /\ Head(ready) = ConsumerWakeup
    /\ wpc = "get"
    /\ Continue(TakeNext(queue, handle, unfinished, semaphore, cur),
                handle, gpc, Tail(ready))
    /\ response' = NoResponse
    /\ dropped' = 0
    /\ UNCHANGED <<nextId, timer, gpc, responses, answer, answerOf, raised, maxsize>>

\* The engine call in the thread ends (line 55-63): it returned or raised.
\* The thread hands the outcome to the loop (call_soon_threadsafe of
\* _set_state).
EngineReturn(a) ==
    /\ \E call \in inflight :
         /\ inflight' = inflight \ {call}
         /\ IF wpc = "to_thread" /\ cur = call
            THEN /\ answer' = a
                 /\ answerOf' = call
                 /\ ready' = Append(ready, SetState)
            ELSE UNCHANGED <<answer, answerOf, ready>>
    /\ response' = NoResponse
    /\ dropped' = 0
    /\ UNCHANGED <<nextId, timer, gpc, handle, outcome, responses, queue, maxsize,
                   unfinished, semaphore, wpc, cur, lastGet, lastCall, raised>>

\* The loop runs _set_state: the outcome is written to the future the
\* consumer awaits in asyncio.to_thread, which schedules the wake-up of the
\* consumer's task.
EngineDone ==
    /\ ready # <<>>
    /\ Head(ready) = SetState
    /\ ready' = Append(Tail(ready), ConsumerWakeup)
    /\ response' = NoResponse
    /\ dropped' = 0
    /\ UNCHANGED <<nextId, timer, gpc, handle, outcome, responses, queue, maxsize,
                   unfinished, semaphore, wpc, cur, inflight, answer, answerOf,
                   lastGet, lastCall, raised>>

\* the consumer without its except clause (line 101): what the generation
\* raises leaves the loop
ConsumerWrite_noexcept(h, g) ==
    IF ~g.ok THEN [fut |-> h, raised |-> FALSE, dead |-> TRUE]
    ELSE IF cancelled(h) THEN [fut |-> h, raised |-> FALSE, dead |-> FALSE]
    ELSE [fut |-> set_result(h, g.response).fut,
          raised |-> set_result(h, g.response).raised,
          dead |-> set_result(h, g.response).raised]

\* the consumer without the tests of future.cancelled() (lines 97, 102)
ConsumerWrite_unchecked(h, g) ==
    LET w == IF g.ok THEN set_result(h, g.response) ELSE set_exception(h, g.exc)
    IN  IF ~w.raised THEN [fut |-> w.fut, raised |-> FALSE, dead |-> FALSE]
        ELSE [fut |-> h, raised |-> TRUE, dead |-> TRUE]

\* Lines 96-105: the consumer writes what try_to_truncate_and_generate
\* returned or raised to the Future unless that is cancelled.  A set_result
\* that raises lands in the except clause of line 101, whose set_exception
\* raises again; an exception raised there leaves the loop and ends the task.
ConsumerWrite(h, g) ==
    LET w == IF g.ok THEN set_result(h, g.response) ELSE set_exception(h, g.exc)
    IN  IF cancelled(h) THEN [fut |-> h, raised |-> FALSE, dead |-> FALSE]
        ELSE IF ~w.raised THEN [fut |-> w.fut, raised |-> FALSE, dead |-> FALSE]
        ELSE [fut |-> h, raised |-> TRUE, dead |-> TRUE]

\* a consumer that puts the item of a failed generation back on the queue
\* instead of failing its Future
ConsumerResume_retry ==
    /\ ready # <<>>
    /\ Head(ready) = ConsumerWakeup
    /\ wpc = "to_thread"
    /\ answer # NoAnswer
    /\ LET r     == cur.future
           retry == ~Generated(answer).ok /\ ~cancelled(handle[r])
           w     == IF retry THEN [fut |-> handle[r], raised |-> FALSE, dead |-> FALSE]
                    ELSE ConsumerWrite(handle[r], Generated(answer))
           h     == [handle EXCEPT ![r] = w.fut]
           rdy   == WakeCaller(Tail(ready), r, handle[r], w.fut, gpc)
           q     == IF retry THEN Append(queue, cur) ELSE queue
           unf   == IF retry THEN unfinished ELSE unfinished - 1
           sem   == semaphore + 1
       IN  /\ raised' = (raised \/ w.raised)
           /\ dropped' = IF cancelled(handle[r]) THEN r ELSE 0
           /\ IF w.dead \/ unf < 0
              THEN Continue([wpc |-> "dead", cur |-> cur, queue |-> q,
                             unfinished |-> unf, semaphore |-> sem,
                             started |-> FALSE, lastGet |-> lastGet],
                            h, gpc, rdy)
              ELSE Continue(TakeNext(q, h, unf, sem, cur), h, gpc, rdy)
    /\ answer' = NoAnswer
    /\ answerOf' = NoItem
    /\ response' = NoResponse
    /\ UNCHANGED <<nextId, timer, gpc, responses, maxsize>>

\* a generation that gives the permit back only when it succeeds: acquire
\* and release written out, the release not in a finally
ConsumerResume_leak ==
    /\ ready # <<>>
    /\ Head(ready) = ConsumerWakeup
    /\ wpc = "to_thread"
    /\ answer # NoAnswer
    /\ LET r   == cur.future
           w   == ConsumerWrite(handle[r], Generated(answer))
           h   == [handle EXCEPT ![r] = w.fut]
           rdy == WakeCaller(Tail(ready), r, handle[r], w.fut, gpc)
           unf == unfinished - 1
           sem == IF Generated(answer).ok THEN semaphore + 1 ELSE semaphore
       IN  /\ raised' = (raised \/ w.raised)
           /\ dropped' = IF cancelled(handle[r]) THEN r ELSE 0
           /\ IF w.dead \/ unf < 0
              THEN Continue([wpc |-> "dead", cur |-> cur, queue |-> queue,
                             unfinished |-> unf, semaphore |-> sem,
                             started |-> FALSE, lastGet |-> lastGet],
                            h, gpc, rdy)
              ELSE Continue(TakeNext(queue, h, unf, sem, cur), h, gpc, rdy)
    /\ answer' = NoAnswer
    /\ answerOf' = NoItem
    /\ response' = NoResponse
    /\ UNCHANGED <<nextId, timer, gpc, responses, maxsize>>

\* The consumer wakes in the engine call (line 55): the rest of
\* try_to_truncate_and_generate (lines 65-78), which gives the permit back
\* however it ends, then lines 96-107, then the loop again from its top.
ConsumerResume ==
    /\ ready # <<>>
    /\ Head(ready) = ConsumerWakeup
    /\ wpc = "to_thread"
    /\ answer # NoAnswer
    /\ LET r   == cur.future
           w   == ConsumerWrite(handle[r], Generated(answer))
           h   == [handle EXCEPT ![r] = w.fut]
           rdy == WakeCaller(Tail(ready), r, handle[r], w.fut, gpc)
           unf == unfinished - 1
           sem == semaphore + 1
       IN  /\ raised' = (raised \/ w.raised)
           /\ dropped' = IF cancelled(handle[r]) THEN r ELSE 0
           /\ IF w.dead \/ unf < 0
              THEN Continue([wpc |-> "dead", cur |-> cur, queue |-> queue,
                             unfinished |-> unf, semaphore |-> sem,
                             started |-> FALSE, lastGet |-> lastGet],
                            h, gpc, rdy)
              ELSE Continue(TakeNext(queue, h, unf, sem, cur), h, gpc, rdy)
    /\ answer' = NoAnswer
    /\ answerOf' = NoItem
    /\ response' = NoResponse
    /\ UNCHANGED <<nextId, timer, gpc, responses, maxsize>>

Init == InitWith(MAX_QUEUE_SIZE)

\* what the program does apart from the arrival of requests
Step(answers) ==
    \/ \E r \in Ids : Timeout(r)
    \/ ReleaseWaiter
    \/ \E r \in Ids : CallerResume(r)
    \/ ConsumerGet
    \/ \E a \in answers : EngineReturn(a)
    \/ EngineDone
    \/ ConsumerResume

\* short conversations; the engine answers well or raises
Next ==
    /\ \/ \E body \in ShortBodies : Request(body)
       \/ Step(PlainAnswers)
    /\ UNCHANGED tvars

\* conversations of every kind
NextConv ==
    /\ \/ \E body \in Bodies : Request(body)
       \/ Step(PlainAnswers)
    /\ UNCHANGED tvars

\* answers of every kind
NextAny ==
    /\ \/ \E body \in ShortBodies : Request(body)
       \/ Step(Answers)
    /\ UNCHANGED tvars

\* the program as it is configured
Spec == Init /\ [][Next]_vars

\* the program with a queue of capacity SmallQueue
SmallSpec == InitWith(SmallQueue) /\ [][Next]_vars

\* the program with a queue of one slot
OneSlotSpec == InitWith(1) /\ [][Next]_vars

\* the same under conversations of every kind
ConvSpec == InitWith(1) /\ [][NextConv]_vars

\* the same under answers of every kind
AnswerSpec == InitWith(1) /\ [][NextAny]_vars

(***************************************************************************)
(* truncate_messages_to_fit_context run on its own (src/api.py:35-46), a   *)
(* statement at a time, on conversations of up to MaxMessages messages.    *)
(* Message i of a conversation is made of the i-th letter, so that the     *)
(* messages of a conversation differ.                                      *)
(***************************************************************************)
\* greatest number of messages of a conversation given to the call
MaxMessages == 4

Letters == <<"a", "b", "c", "d", "e", "f", "g", "h">>

\* content lengths: empty, short, at the cap of 400 and over it
Lengths == {0, 7, MAX_CONTENT_CHARS, MAX_CONTENT_CHARS + 1}

Budgets == {0, 1, 150, 250, MAX_CONTEXT_TOKENS}

\* a text of n times the letter
Text(letter, n) == Repeat(Repeat(letter, 20), n \div 20) \o Repeat(letter, n % 20)

Conversation(lens) ==
    [i \in 1..Len(lens) |->
       [role    |-> IF i % 2 = 1 THEN "user" ELSE "assistant",
        content |-> Text(Letters[i], lens[i])]]

Conversations ==
    { Conversation(lens) : lens \in UNION {[1..n -> Lengths] : n \in 0..MaxMessages} }

TruncInit ==
    /\ BrokerInit(MAX_QUEUE_SIZE)
    /\ tpc = "call"
    /\ given \in Conversations
    /\ msgs = given
    /\ budget \in Budgets
    /\ total_estimated_tokens = 0

\* lines 37-42: the contents are cut, then the total is computed
TruncateCap ==
    /\ tpc = "call"
    /\ msgs' = CapAll(msgs)
    /\ total_estimated_tokens' = SumTokens(CapAll(msgs))
    /\ tpc' = "while"
    /\ UNCHANGED <<given, budget, bvars>>

\* lines 43-45: one turn of the while loop
TruncatePop ==
    /\ tpc = "while"
    /\ total_estimated_tokens > budget /\ Len(msgs) > 2
    /\ msgs' = Pop(msgs, 2)
    /\ total_estimated_tokens' = SumTokens(Pop(msgs, 2))
    /\ UNCHANGED <<tpc, given, budget, bvars>>

\* lines 43, 46: the loop ends and the list is returned
TruncateReturn ==
    /\ tpc = "while"
    /\ ~(total_estimated_tokens > budget /\ Len(msgs) > 2)
    /\ tpc' = "returned"
    /\ UNCHANGED <<given, msgs, budget, total_estimated_tokens, bvars>>

TruncNext == TruncateCap \/ TruncatePop \/ TruncateReturn

\* the call runs to its end once it is made
TruncSpec == TruncInit /\ [][TruncNext]_vars /\ WF_vars(TruncNext)

(***************************************************************************)
(* Scheduling.  The event loop runs every callback it holds, oldest first; *)
(* the timer of a wait_for fires when its deadline passes.  The engine     *)
(* call is outside the program: that it ends is an assumption.             *)
(***************************************************************************)
LoopStep ==
    /\ \/ ConsumerGet
       \/ ConsumerResume
       \/ EngineDone
       \/ ReleaseWaiter
       \/ \E r \in Ids : CallerResume(r)
    /\ UNCHANGED tvars

LoopFairness ==
    /\ WF_vars(LoopStep)
    /\ \A r \in Ids : WF_vars(Timeout(r) /\ UNCHANGED tvars)

EngineFairness == WF_vars((\E a \in Answers : EngineReturn(a)) /\ UNCHANGED tvars)

\* the program of one slot; the engine may never return
FairSpec == OneSlotSpec /\ LoopFairness

\* the same under answers of every kind, every engine call returning
LiveSpec == AnswerSpec /\ LoopFairness /\ EngineFairness

(***************************************************************************)
(* Properties.                                                             *)
(***************************************************************************)

\* C1: at most one engine call is in flight in every reachable state, and
\* the call in flight is the one of the item the consumer holds, also when
\* the caller of that item has timed out: no other item's call has started.
AtMostOneGeneration ==
    /\ Cardinality(inflight) <= 1
    /\ \A call \in inflight : call = cur /\ wpc = "to_thread"

\* the caller of the item in flight has timed out, and a request whose
\* caller still waits is in the queue behind it
AbandonedCallInFlight ==
    /\ inflight = {cur}
    /\ cancelled(handle[cur.future])
    /\ \E i \in 1..Len(queue) : IsPending(handle[queue[i].future])

\* C2: the queue never holds more items than the capacity it was
\* constructed with.
QueueWithinCapacity == Len(queue) <= maxsize

\* the queue is full while a call is in flight and a queued caller has
\* timed out
QueueAtCapacity ==
    /\ Len(queue) = maxsize
    /\ inflight # {}
    /\ \E i \in 1..Len(queue) : cancelled(handle[queue[i].future])

\* C3: a request that arrives while the queue holds as many items as its
\* capacity is answered 503 in the same step; the queue, every Future,
\* every waiting caller and its timer, the loop's callbacks and the
\* consumer are as they were.
RejectedWhenFull ==
    [][(Len(queue) >= maxsize /\ \E body \in ShortBodies : Request(body))
         => /\ response'.status_code = 503
            /\ UNCHANGED <<queue, unfinished, handle, gpc, timer, nextId, ready,
                           wpc, cur, inflight, responses>>]_vars

\* a request has just been turned away from the full queue
TurnedAway ==
    /\ response.status_code = 503
    /\ Len(queue) = maxsize

\* C4: once a caller has got 408, its Future is cancelled and stays so for
\* as long as it exists, the caller gets no further response, and neither
\* the consumer's skip at the queue nor its write after the engine call
\* changes the Future.
NoResponseAfterTimeout ==
    /\ [](\A r \in Ids : outcome[r] = 408 =>
            /\ cancelled(handle[r])
            /\ gpc[r] = "returned"
            /\ responses[r] = 1)
    /\ [][\A r \in Ids : outcome[r] = 408 =>
            /\ handle'[r] \in {Cancelled, NoHandle}
            /\ gpc'[r] = "returned"
            /\ responses'[r] = 1
            /\ response'.req # r]_vars

\* the consumer has just dropped the engine's outcome for a caller that
\* had got 408, and the Future it still holds is cancelled as before
ResultDropped ==
    /\ dropped # 0
    /\ outcome[dropped] = 408
    /\ gpc[dropped] = "returned"
    /\ cur.future = dropped
    /\ cancelled(handle[dropped])

\* C5: a Future leaves Pending at most once: a Future that is resolved,
\* failed or cancelled keeps its state and value until it is released, a
\* released Future does not come back, no write to a Future raises
\* InvalidStateError and the consumer is never ended by one.
SingleAssignment ==
    /\ [][\A r \in Ids : IsTerminal(handle[r]) =>
            handle'[r] \in {handle[r], NoHandle}]_vars
    /\ [][\A r \in Ids : (handle[r] = NoHandle /\ gpc[r] # "new") =>
            handle'[r] = NoHandle]_vars
    /\ [](~raised /\ wpc # "dead")

\* the timeout has cancelled the Future of the item whose engine call has
\* already ended: the consumer's write comes too late
CancelBeatsWrite ==
    /\ wpc = "to_thread"
    /\ answer # NoAnswer
    /\ cancelled(handle[cur.future])

\* C6: admission order is kept.  The queue holds the requests in the order
\* of their numbers, the consumer takes them in that order, and an engine
\* call starts only when no call is in flight and for a request later than
\* that of every call before.
FifoOrder ==
    /\ [](\A i, j \in 1..Len(queue) : i < j => queue[i].future < queue[j].future)
    /\ [](\A i \in 1..Len(queue) : queue[i].future > lastGet)
    /\ [](cur # NoItem => cur.future = lastGet)
    /\ [](lastCall <= lastGet)
    /\ [][lastGet' >= lastGet]_vars
    /\ [][\A call \in inflight' \ inflight :
            /\ inflight = {}
            /\ call.future > lastCall
            /\ call.future = lastGet'
            /\ lastCall' = call.future]_vars

\* the second call is in flight, the first having ended, with the third
\* request queued behind it
ThirdCallInOrder ==
    /\ lastCall = 2
    /\ inflight # {}
    /\ queue # <<>>
    /\ Head(queue).future = 3

\* C7: every admitted request returns to its caller, whether or not the
\* engine ever returns, and it returns once: a caller has one response when
\* it has returned and none before, and a caller that has returned gets
\* nothing more.  (A request that is turned away has its one response in
\* the step of its arrival.)
EveryRequestAnswered ==
    /\ \A r \in Ids : (gpc[r] = "waiting") ~> (gpc[r] = "returned")
    /\ [](\A r \in Ids : responses[r] = IF gpc[r] = "returned" THEN 1 ELSE 0)
    /\ [][\A r \in Ids : gpc[r] = "returned" =>
            /\ gpc'[r] = "returned"
            /\ response'.req # r]_vars

\* a caller has just timed out in the queue behind an engine call that has
\* not returned
TimedOutBehindCall ==
    /\ response.status_code = 408
    /\ response.req # cur.future
    /\ inflight # {}
    /\ answer = NoAnswer

\* the text of an engine answer that is a dict: the contents of the
\* choices that have a message, in order
TextOf(a) ==
    LET chosen == SelectSeq(a.choices, LAMBDA c : c.has_message)
    IN  Concat([i \in 1..Len(chosen) |-> chosen[i].content])

\* the engine answer is a dict in which every message has its content
Usable(a) ==
    /\ a.kind = "dict"
    /\ \A i \in 1..Len(a.choices) :
         a.choices[i].has_message => a.choices[i].has_content

\* C8: a caller's outcome comes from its own item.  200 with text t is
\* returned only from the caller's own Future resolved with t, 500 only
\* from its own Future failed, 408 only from its own Future cancelled, which
\* a Future is only by its own handler, woken after its deadline while the
\* Future is still pending.  A Future is resolved or failed only by the
\* consumer while it holds that Future's item, with the outcome of the
\* engine call made for that item.
OwnOutcomeOnly ==
    /\ [][response'.req # 0 =>
            LET r == response'.req
            IN  /\ gpc[r] = "waiting"
                /\ response'.status_code \in {200, 500, 408}
                /\ response'.status_code = 200 =>
                     handle[r] = Resolved(response'.body)
                /\ response'.status_code = 500 =>
                     /\ handle[r].state = "Failed"
                     /\ response'.body =
                          "Internal server error: 500: " \o handle[r].error.detail
                /\ response'.status_code = 408 =>
                     cancelled(handle[r]) /\ timer[r] = "fired"]_vars
    /\ [][\A r \in Ids :
            (~cancelled(handle[r]) /\ cancelled(handle'[r])) =>
               /\ IsPending(handle[r])
               /\ timer[r] = "fired"
               /\ gpc[r] = "waiting"
               /\ Head(ready) = TaskWakeup(r)]_vars
    /\ [][\A r \in Ids :
            (IsPending(handle[r]) /\ handle'[r].state \in {"Resolved", "Failed"}) =>
               /\ cur.future = r
               /\ answerOf = cur
               /\ inflight = {}
               /\ handle'[r].state = "Resolved" =>
                    Usable(answer) /\ handle'[r].value = TextOf(answer)
               /\ handle'[r].state = "Failed" =>
                    ~Usable(answer) /\ handle'[r].error.status_code = 500]_vars

\* a caller has just got the text of its engine call while other callers wait
TextDelivered ==
    /\ response.status_code = 200
    /\ response.body = "Hi there"
    /\ \E r \in Ids : gpc[r] = "waiting"

\* the engine raised, or returned what the claims call malformed output: not
\* a dict, no 'choices', a choice without 'message', a message without
\* 'content'
Malformed(a) ==
    \/ a.kind = "notdict"
    \/ /\ a.kind = "dict"
       /\ \/ ~a.has_choices
          \/ \E i \in 1..Len(a.choices) :
               ~a.choices[i].has_message \/ ~a.choices[i].has_content

\* the consumer takes up the outcome of the engine call in this step
Resumes == wpc = "to_thread" /\ answer # NoAnswer /\ answer' = NoAnswer

\* nothing is queued and the consumer is idle
Drained == queue = <<>> /\ wpc = "get"

\* C9: a failure of the engine call does not stop the consumer.  The
\* consumer task never ends; in the step that takes up a raised exception
\* or malformed output it gives the permit back and either goes on with the
\* first queued item whose Future is not cancelled, taking the permit again
\* for a new call, or suspends in queue.get() on an empty queue; and when
\* every engine call returns, the queue is drained afterwards.
FailureIsolated ==
    /\ [](wpc # "dead")
    /\ [][(Resumes /\ (answer.kind = "raise" \/ Malformed(answer))) =>
            /\ wpc' \in {"get", "to_thread"}
            /\ wpc' = "get" => (semaphore' = 1 /\ queue' = <<>> /\ inflight' = {})
            /\ wpc' = "to_thread" =>
                 /\ semaphore' = 0
                 /\ inflight' = {cur'}
                 /\ cur'.future > cur.future
            /\ (\E i \in 1..Len(queue) : ~cancelled(handle[queue[i].future])) =>
                 wpc' = "to_thread"]_vars
    /\ (answer.kind = "raise" \/ Malformed(answer)) ~> Drained

\* the consumer has failed a Future whose caller still waits and has
\* started the next item's call in the same step
FailedThenNext ==
    /\ \E r \in Ids : handle[r].state = "Failed" /\ gpc[r] = "waiting"
    /\ inflight # {}
    /\ semaphore = 0

\* C10: whenever the engine's output is malformed, the consumer fails the
\* item's Future unless that is cancelled, and never resolves it.
MalformedAlwaysFails ==
    [][(Resumes /\ Malformed(answer)) =>
         /\ IsPending(handle[cur.future]) => handle'[cur.future].state = "Failed"
         /\ handle'[cur.future].state # "Resolved"]_vars

\* a message with its content cut to its first 400 characters
Cut(m) ==
    [m EXCEPT !.content =
       SubSeq(@, 1, IF Len(@) < MAX_CONTENT_CHARS THEN Len(@) ELSE MAX_CONTENT_CHARS)]

CutAll(conv) == [i \in 1..Len(conv) |-> Cut(conv[i])]

\* the estimated total of a conversation: the sum of floor(len(content) / 4)
RECURSIVE EstimatedTotal(_)
EstimatedTotal(conv) ==
    IF conv = <<>> THEN 0
    ELSE (Len(Head(conv).content) \div 4) + EstimatedTotal(Tail(conv))

\* a conversation is within the bounds of truncation: no content has more
\* than 400 characters, and the estimated total is within the budget or at
\* most 2 messages are left
Bounded(conv) ==
    /\ \A i \in 1..Len(conv) : Len(conv[i].content) <= MAX_CONTENT_CHARS
    /\ EstimatedTotal(conv) <= MAX_CONTEXT_TOKENS \/ Len(conv) <= 2

\* C11: the gateway truncates the conversation before admission: every work
\* item in the queue holds a conversation in which every message content is
\* at most 400 characters and whose estimated total is within the budget or
\* which has at most 2 messages.  generate_response queues the list as
\* BuildMessages made it, so a long conversation in the queue violates this.
QueuedItemsTruncated ==
    \A i \in 1..Len(queue) : Bounded(queue[i].messages)

\* a request arrives
Arrives == \E body \in ShortBodies : Request(body)

\* C12: with a queue of one slot, when the first request admitted, A, has
\* its generation in flight and a second request B arrives, B is turned
\* away with 503 in the step of its arrival.
BusyWhileInFlight ==
    [][(maxsize = 1 /\ nextId = 2 /\ cur.future = 1 /\ inflight = {cur} /\ Arrives) =>
         response'.status_code = 503]_vars

\* C12 as amended: with a queue of one slot and A the first request
\* admitted, a second request B that arrives while A is still in the queue
\* is turned away with 503 in the step of its arrival, nothing else
\* changing; a B that arrives while A's generation is in flight finds the
\* slot free, because A left the queue when the worker took it: B is put in
\* the queue and its caller waits.
OneSlotAdmission ==
    [][(maxsize = 1 /\ nextId = 2 /\ Arrives) =>
         /\ (Len(queue) = 1 /\ queue[1].future = 1) =>
              /\ response'.status_code = 503
              /\ response'.req = 0
              /\ UNCHANGED <<queue, gpc, handle, nextId, unfinished>>
         /\ (cur.future = 1 /\ inflight = {cur}) =>
              /\ queue = <<>>
              /\ Len(queue') = 1 /\ queue'[1].future = 2
              /\ gpc'[2] = "waiting"
              /\ IsPending(handle'[2])
              /\ response' = NoResponse]_vars

\* B waits in the one slot while A's generation is in flight
SecondWaitsBehindFirst ==
    /\ maxsize = 1
    /\ cur.future = 1 /\ inflight = {cur}
    /\ Len(queue) = 1 /\ queue[1].future = 2
    /\ gpc[2] = "waiting" /\ IsPending(handle[2])

\* C13: truncate never removes the messages at indices 0 and 1.  At every
\* point of the call after the cut of the contents, and so at its return, a
\* conversation given with at most 2 messages has all its messages, and a
\* longer one is the given messages 0 and 1 followed by a suffix of the
\* given messages 2..n-1 in their order, each with its content cut to 400
\* characters; what is returned is what the broker's worker gets.
PinnedKept ==
    /\ tpc \in {"while", "returned"} =>
         /\ Len(given) <= 2 => msgs = CutAll(given)
         /\ Len(given) > 2 =>
              \E k \in 2..Len(given) :
                  msgs = CutAll(SubSeq(given, 1, 2) \o SubSeq(given, k + 1, Len(given)))
    /\ tpc = "returned" => msgs = truncate_messages_to_fit_context(given, budget)

\* a call has returned a conversation of 4 messages without its message at
\* index 2
OldestTurnRemoved ==
    /\ tpc = "returned"
    /\ Len(given) = 4
    /\ msgs = CutAll(<<given[1], given[2], given[4]>>)

\* the conversation given to the call exceeds the budget after the cut
Exceeds == EstimatedTotal(CutAll(given)) > budget

\* C14: for a conversation that exceeds the budget, truncate returns a
\* conversation that is within the budget or has exactly 2 messages.
WithinBudgetOrTwo ==
    (tpc = "returned" /\ Exceeds) =>
        (EstimatedTotal(msgs) <= budget \/ Len(msgs) = 2)

\* C14 as amended: for a conversation that exceeds the budget, truncate
\* terminates; it removes one message at a time, and only while the total
\* is over the budget and more than 2 messages remain; what it returns is
\* within the budget or has at most 2 messages: exactly 2 when more than 2
\* were given, and all of the given messages when fewer than 2 were.
ReducesToBudgetOrFloor ==
    /\ <>(tpc = "returned")
    /\ [][Len(msgs') # Len(msgs) =>
            /\ Len(msgs') = Len(msgs) - 1
            /\ EstimatedTotal(msgs) > budget
            /\ Len(msgs) > 2]_vars
    /\ []((tpc = "returned" /\ Exceeds) =>
            \/ EstimatedTotal(msgs) <= budget
            \/ Len(msgs) = (IF Len(given) < 2 THEN Len(given) ELSE 2))
    /\ []((tpc = "returned" /\ ~Exceeds) => Len(msgs) = Len(given))

\* a call has returned a single message that is over the budget
OneMessageOverBudget ==
    /\ tpc = "returned"
    /\ Len(msgs) = 1
    /\ EstimatedTotal(msgs) > budget

\* the requests of the items in a queue
Queued(q) == {q[i].future : i \in 1..Len(q)}

\* C15: nothing is retried.  An engine call starts only for an item later
\* than every item a call was started for before, so no item has two calls,
\* whatever became of its call; the queue changes only by losing items at
\* its front and by gaining a newly admitted request at its end; and an
\* item the consumer has taken, whether its call succeeded, failed or was
\* abandoned, is not in the queue again.
NoRetry ==
    /\ [][\A call \in inflight' \ inflight :
            /\ call.future > lastCall
            /\ \A other \in inflight : other.future < call.future
            /\ lastCall' = call.future]_vars
    /\ [](\A call \in inflight : call.future <= lastCall)
    /\ [][\E k \in 0..Len(queue) :
            \/ queue' = SubSeq(queue, k + 1, Len(queue))
            \/ /\ queue' # <<>>
               /\ queue' = Append(SubSeq(queue, k + 1, Len(queue)), queue'[Len(queue')])
               /\ queue'[Len(queue')].future = nextId
               /\ gpc[nextId] = "new"]_vars
    /\ [](\A r \in Queued(queue) : r > lastGet /\ r > lastCall /\ r # cur.future)
    /\ [][Resumes =>
            /\ cur.future \notin Queued(queue')
            /\ \A call \in inflight' : call.future > cur.future]_vars

\* the call of an item has failed, the next item's call is in flight, and
\* the caller of the failed item has not yet got its response
FailedNotRetried ==
    \E r \in Ids :
        /\ handle[r].state = "Failed"
        /\ gpc[r] = "waiting"
        /\ lastCall > r
        /\ inflight # {}
        /\ r \notin Queued(queue)

\* C16: an item whose Future is cancelled when the consumer takes it from
\* the queue is passed over: no engine call is started for it, its Future
\* is not written, it is marked done, and in the same step the consumer
\* goes on to the next item or suspends in queue.get() on an empty queue;
\* the permit is taken only for an item that is not cancelled.
SkipsCancelled ==
    [][\A r \in Queued(queue) :
         (cancelled(handle[r]) /\ r \notin Queued(queue')) =>
            /\ \A call \in inflight' : call.future # r
            /\ lastCall' # r
            /\ lastGet' >= r
            /\ handle'[r] \in {Cancelled, NoHandle}
            /\ unfinished' < unfinished
            /\ wpc' \in {"get", "to_thread"}
            /\ wpc' = "get" => (queue' = <<>> /\ inflight' = {} /\ semaphore' = 1)
            /\ wpc' = "to_thread" =>
                 /\ cur'.future > r
                 /\ ~cancelled(handle[cur'.future])
                 /\ semaphore' = 0]_vars

\* the consumer has passed over the last item of the queue, whose caller had
\* timed out, and is idle with the permit free
SkippedToIdle ==
    /\ wpc = "get"
    /\ lastGet > lastCall
    /\ cancelled(handle[lastGet])
    /\ semaphore = 1
    /\ queue = <<>>

\* C17: every conversation handed to the engine is within the bounds of
\* truncation, whatever was queued: each call in flight has it so, and the
\* conversation of a call that starts is the one that was queued for the
\* item, with contents cut and without some of its messages from index 2 on.
EngineGetsTruncated ==
    /\ [](\A call \in inflight : Bounded(call.messages))
    /\ [][\A call \in inflight' \ inflight :
            /\ Bounded(call.messages)
            /\ \E i \in 1..Len(queue) :
                 /\ queue[i].future = call.future
                 /\ Len(call.messages) <= Len(queue[i].messages)
                 /\ \A j \in 1..Len(call.messages) :
                      j <= 2 => call.messages[j] = Cut(queue[i].messages[j])]_vars

\* the call in flight has a long conversation, shortened to the budget
LongCallInFlight ==
    \E call \in inflight :
        /\ Len(call.messages) > 2
        /\ Len(call.messages) < LongContext + 1
        /\ EstimatedTotal(call.messages) > MAX_CONTEXT_TOKENS - 100

\* the callers suspended on a pending Future
Suspended == {r \in Ids : gpc[r] = "waiting" /\ IsPending(handle[r])}

\* C18: no admitted request is lost.  Every pending Future is that of a
\* caller that waits and of an item that is in the queue or is the one item
\* the consumer holds in a generation, not both; so at most as many
\* callers as the queue's capacity and one more are suspended on a pending
\* Future.
NoRequestLost ==
    /\ \A r \in Ids : IsPending(handle[r]) =>
         /\ gpc[r] = "waiting"
         /\ (r \in Queued(queue)) # (cur.future = r /\ wpc = "to_thread")
    /\ Cardinality(Suspended) <= maxsize + 1

\* the queue is full of pending requests and one more is in flight
AllSlotsAndWorkerPending ==
    /\ Cardinality(Suspended) = maxsize + 1
    /\ inflight # {}

\* C19: a caller's timeout leaves the queue as it is.  Neither the step in
\* which the handler cancels its Future nor the step that returns 408
\* changes the queue or its count of unfinished items, and an item whose
\* Future is cancelled leaves the queue only when the consumer takes it.
TimeoutKeepsQueue ==
    /\ [][(\E r \in Ids : IsPending(handle[r]) /\ cancelled(handle'[r])) =>
            /\ queue' = queue
            /\ unfinished' = unfinished
            /\ semaphore' = semaphore
            /\ cur' = cur]_vars
    /\ [][response'.status_code = 408 =>
            /\ queue' = queue
            /\ unfinished' = unfinished
            /\ semaphore' = semaphore
            /\ cur' = cur]_vars
    /\ [][\A r \in Queued(queue) :
            (cancelled(handle[r]) /\ r \notin Queued(queue')) =>
               (lastGet' >= r /\ lastGet < r)]_vars

\* a request has just been turned away by a full queue in which every item
\* has a cancelled Future
RejectedByCancelledItems ==
    /\ response.status_code = 503
    /\ Len(queue) = maxsize
    /\ \A r \in Queued(queue) : cancelled(handle[r])

\* C20: the permit is taken only by the consumer, for a call it starts, and
\* is free again when the generation has ended, however it ended.  The
\* count is 0 or 1; it is 0 exactly while the consumer is in a generation,
\* so it is 1 whenever the consumer is idle; and the consumer never waits
\* for the permit.
GateDiscipline ==
    /\ [](semaphore \in {0, 1})
    /\ [](wpc = "get" => semaphore = 1)
    /\ [](wpc # "acquire")
    /\ [](semaphore = 0 <=> wpc = "to_thread")
    /\ [][semaphore' < semaphore =>
            (wpc = "get" /\ wpc' = "to_thread" /\ inflight' = {cur'})]_vars
    /\ [][Resumes => (wpc' = "get" => semaphore' = 1)]_vars

\* the consumer is idle with the permit free after a generation whose
\* caller had timed out
PermitFreeAfterAbandon ==
    /\ dropped # 0
    /\ wpc = "get"
    /\ semaphore = 1

====
